---------------------------- MODULE Spec2Model ----------------------------
(***************************************************************************)
(* A model of fuse/__main__.py: CppFusioner, the engine that flattens a    *)
(* tree of #include directives into one file.                              *)
(*                                                                         *)
(* Text is modelled at the level of tokens.  A line is a sequence of       *)
(* tokens (strings); in the lines of a file the tokens "<", ">", "\"",     *)
(* "/" and " " are the only ones that contain those characters, and        *)
(* "#include" is a token of its own.  A file's text is the sequence of     *)
(* its lines: content.split('\n') and '\n'.join(...) are inverse           *)
(* bijections between a text and its non-empty sequence of lines, so a     *)
(* text is kept as that sequence, and appending a multi-line string to     *)
(* processed_lines is concatenation.                                       *)
(* A path is the sequence of its components, absolute when the first       *)
(* component is "/"; two paths are equal, as pathlib's are, when their     *)
(* components are equal (".." is not collapsed by comparison).            *)
(***************************************************************************)
EXTENDS Naturals, Sequences, FiniteSets, TLC

\* The number of lines of file text the environment may choose freely in
\* one run; files read after that hold the single line PlainLine.
MaxLines == 3

None == <<"None">>

---------------------------------------------------------------------------
\* The file system the run sees.

Cwd == <<"/", "p">>

Dirs == { <<"/">>, <<"/", "p">>, <<"/", "inc">>, <<"/", "inc", "gtest">>,
          <<"/", "inc", "src">> }

Files == { <<"/", "p", "a.h">>, <<"/", "p", "b.h">>, <<"/", "p", "c.cpp">>,
           <<"/", "p", "n.txt">>, <<"/", "inc", "d.H">>,
           <<"/", "inc", "gtest", "gtest-spi.h">>,
           <<"/", "inc", "gtest", "gtest.h">>,
           <<"/", "inc", "src", "gtest-internal-inl.h">> }

Last(s) == s[Len(s)]

Front(s) == SubSeq(s, 1, Len(s) - 1)

\* Path.is_absolute / the cwd-join that Path.resolve and os.stat apply.
Absolute(path) == IF path # <<>> /\ path[1] = "/" THEN path ELSE Cwd \o path

RECURSIVE Collapse(_, _)
Collapse(parts, acc) ==
    IF parts = <<>> THEN acc
    ELSE IF Head(parts) = ".."
         THEN Collapse(Tail(parts), IF Len(acc) > 1 THEN Front(acc) ELSE acc)
         ELSE Collapse(Tail(parts), Append(acc, Head(parts)))

\* Path.resolve(): absolute, with ".." segments collapsed.
resolve(path) == Collapse(Tail(Absolute(path)), <<"/">>)

\* Path.exists(): the path is walked component by component; every
\* component but the last must be a directory.  Walk gives the place
\* reached, or None.
RECURSIVE Walk(_, _)
Walk(parts, cur) ==
    IF parts = <<>> THEN (IF cur \in Files \cup Dirs THEN cur ELSE None)
    ELSE IF cur \notin Dirs THEN None
    ELSE IF Head(parts) = ".."
         THEN Walk(Tail(parts), IF Len(cur) > 1 THEN Front(cur) ELSE cur)
         ELSE Walk(Tail(parts), Append(cur, Head(parts)))

exists(path) == Walk(Tail(Absolute(path)), <<"/">>) # None

\* str(path), as the tokens of the text.
RECURSIVE JoinParts(_)
JoinParts(parts) ==
    IF Len(parts) <= 1 THEN parts
    ELSE <<Head(parts), "/">> \o JoinParts(Tail(parts))

str(path) ==
    IF path # <<>> /\ path[1] = "/" THEN <<"/">> \o JoinParts(Tail(path))
    ELSE JoinParts(path)

\* Path(include_name): the components of a reference text.
PathOf(name) == SelectSeq(name, LAMBDA t : t # "/")

\* path.suffix, path.stem, str.lower, str.upper on the names of this world.
suffix(name) ==
    CASE name \in {"a.h", "b.h", "gtest-spi.h", "gtest-internal-inl.h",
                   "gtest.h", "x.h", "nope.h"} -> ".h"
      [] name = "d.H" -> ".H"
      [] name = "c.cpp" -> ".cpp"
      [] name = "n.txt" -> ".txt"
      [] OTHER -> ""

stem(name) ==
    CASE name = "a.h" -> "a"
      [] name = "b.h" -> "b"
      [] name = "d.H" -> "d"
      [] name = "c.cpp" -> "c"
      [] name = "n.txt" -> "n"
      [] OTHER -> name

lower(s) == CASE s = ".H" -> ".h" [] OTHER -> s

upper(s) ==
    CASE s = "a" -> "A"
      [] s = "b" -> "B"
      [] s = "c" -> "C"
      [] s = "d" -> "D"
      [] s = "n" -> "N"
      [] OTHER -> s

get_file_type(path) ==
    LET ext == lower(suffix(Last(path)))
    IN  IF ext \in {".h", ".hpp", ".hxx", ".hh"} THEN "HEADER"
        ELSE IF ext \in {".c", ".cpp", ".cxx", ".cc"} THEN "SOURCE"
        ELSE "UNKNOWN"

---------------------------------------------------------------------------
\* Lines.

PlainLine == <<"int x;">>

Include(open, name, close) == <<"#include", " ", open>> \o name \o <<close>>

Quoted(name) == Include("\"", name, "\"")

\* The lines the files of a run are made of.
Pool == { PlainLine,
          Include("<", <<"b.h">>, ">"),
          Quoted(<<"b.h">>),
          Quoted(<<"a.h">>),
          Quoted(<<"c.cpp">>),
          Quoted(<<"d.H">>),
          Quoted(<<"..", "/", "p", "/", "b.h">>),
          Quoted(<<"nope.h">>),
          Quoted(<<"gtest", "/", "gtest-spi.h">>) }

\* re.match(r'#include\s*[<"]([^>"]+)[>"]', line), on tokens.
RECURSIVE SkipSpace(_, _)
SkipSpace(line, i) ==
    IF i <= Len(line) /\ line[i] = " " THEN SkipSpace(line, i + 1) ELSE i

RECURSIVE ScanName(_, _)
ScanName(line, j) ==
    IF j <= Len(line) /\ line[j] \notin {">", "\""} THEN ScanName(line, j + 1)
    ELSE j

\* The position of the opening delimiter, or 0 when the line does not match.
MatchOpen(line) ==
    IF Len(line) = 0 \/ line[1] # "#include" THEN 0
    ELSE LET i == SkipSpace(line, 2)
             j == ScanName(line, i + 1)
         IN  IF /\ i <= Len(line)
                /\ line[i] \in {"<", "\""}
                /\ j > i + 1
                /\ j <= Len(line)
             THEN i ELSE 0

include_match(line) == MatchOpen(line) # 0

\* include_match.group(1)
group1(line) ==
    LET i == MatchOpen(line)
    IN  SubSeq(line, i + 1, ScanName(line, i + 1) - 1)

\* Fault variant of IsSystemInclude: the test for system includes is
\* missing.
IsSystemIncludeNever(line) == FALSE

\* '<' in line
IsSystemInclude(line) == \E k \in 1..Len(line) : line[k] = "<"

---------------------------------------------------------------------------
\* The engine (CppFusioner), one fuse_file run and its environment.

VARIABLES
    include_paths,     \* self.include_paths
    inline_headers,    \* self.inline_headers
    inline_sources,    \* self.inline_sources
    processing_stack,  \* self.processing_stack
    already_inlined,   \* self.already_inlined
    disk,              \* the text of each file that was read or is given
    input_file,        \* fuse_file's input_file
    frames,            \* the active process_file calls, outermost first
    pc,                \* where fuse_file is
    processed,         \* fuse_file's local: what process_file returned
    error,             \* the path the raised exception names
    output,            \* the text written to output_file
    resolver,          \* the last find_include_file call and how many were made
    stderr             \* the last diagnostic printed

vars == <<include_paths, inline_headers, inline_sources, processing_stack,
          already_inlined, disk, input_file, frames, pc, processed, error,
          output, resolver, stderr>>

config == <<include_paths, inline_headers, inline_sources, input_file>>

\* The search paths a run is started with: ["/inc", "."].
IncludePathChoices == { << <<"/", "inc">>, <<>> >> }

\* The input files a run is started on, as given on the command line.
InputChoices == { <<"a.h">>, <<"c.cpp">>, <<"n.txt">> }

\* How an engine is set up: as the command line does it, from the kind of
\* the input file, or with the two switches given explicitly.
Runs ==
    { <<f, get_file_type(f) = "HEADER", get_file_type(f) = "SOURCE">> :
        f \in InputChoices }
    \cup { << <<"a.h">>, h, s >> : h \in BOOLEAN, s \in BOOLEAN }

NoCall == [calls |-> 0, include_name |-> None, current_dir |-> None,
           result |-> None]

Init ==
    /\ include_paths \in IncludePathChoices
    /\ \E run \in Runs :
         /\ input_file = run[1]
         /\ inline_headers = run[2]
         /\ inline_sources = run[3]
    /\ processing_stack = {}
    /\ already_inlined = {}
    /\ disk = << >>
    /\ frames = << >>
    /\ pc = "start"
    /\ processed = None
    /\ error = None
    /\ output = None
    /\ resolver = NoCall
    /\ stderr = [msg |-> "", what |-> None]

\* Fault variant of SearchIncludePaths: the last match wins.
RECURSIVE SearchLastMatch(_, _)
SearchLastMatch(paths, include_name) ==
    IF paths = <<>> THEN None
    ELSE LET full_path == Last(paths) \o PathOf(include_name)
         IN  IF exists(full_path) THEN full_path
             ELSE SearchLastMatch(Front(paths), include_name)

\* find_include_file: the including file's directory first, then the
\* search path in list order.
RECURSIVE SearchIncludePaths(_, _)
SearchIncludePaths(paths, include_name) ==
    IF paths = <<>> THEN None
    ELSE LET full_path == Head(paths) \o PathOf(include_name)
         IN  IF exists(full_path) THEN full_path
             ELSE SearchIncludePaths(Tail(paths), include_name)

find_include_file(include_name, current_dir) ==
    LET local_path == current_dir \o PathOf(include_name)
    IN  IF exists(local_path) THEN local_path
        ELSE SearchIncludePaths(include_paths, include_name)

FindCall(include_name, current_dir) ==
    [calls |-> resolver.calls + 1, include_name |-> include_name,
     current_dir |-> current_dir,
     result |-> find_include_file(include_name, current_dir)]

\* The free lines left to the environment.
RECURSIVE LinesOf(_, _)
LinesOf(d, fs) ==
    IF fs = {} THEN 0
    ELSE LET f == CHOOSE x \in fs : TRUE
         IN  Len(d[f]) + LinesOf(d, fs \ {f})

Budget == LET used == LinesOf(disk, DOMAIN disk)
          IN  IF used >= MaxLines THEN 0 ELSE MaxLines - used

Texts(n) == UNION { [1..k -> Pool] : k \in 1..n }

\* open(abs_path).read(): a file keeps its text for the whole run.
ReadChoices(abs_path) ==
    IF abs_path \in DOMAIN disk THEN { disk[abs_path] }
    ELSE IF Budget = 0 THEN { <<PlainLine>> }
    ELSE Texts(Budget)

\* The current frame and line.
Top == frames[Len(frames)]

InLoop == pc = "run" /\ frames # <<>> /\ Top.i <= Len(Top.lines)

Line == Top.lines[Top.i]

\* One loop iteration that appends `emitted` and goes on to the next line.
Emit(emitted) ==
    frames' = [frames EXCEPT ![Len(frames)] =
                 [@ EXCEPT !.processed_lines = @ \o emitted, !.i = @ + 1]]

\* Fault variant of Enter: a file met again on the stack is taken as empty
\* instead of raising.
EnterSwallowsCycle(file_path) ==
    LET abs_path == resolve(file_path)
    IN  IF abs_path \in processing_stack
        THEN /\ Emit(<< >>)
             /\ pc' = "run"
             /\ UNCHANGED <<processing_stack, disk, error>>
        ELSE /\ processing_stack' = processing_stack \cup {abs_path}
             /\ \E content \in ReadChoices(abs_path) :
                  /\ disk' = (abs_path :> content) @@ disk
                  /\ frames' = Append(frames,
                        [file_path |-> file_path, abs_path |-> abs_path,
                         lines |-> content, i |-> 1,
                         processed_lines |-> << >>])
             /\ pc' = "run"
             /\ UNCHANGED error

\* process_file, from its entry to the start of the loop: the cycle check,
\* the push on processing_stack, the read.
Enter(file_path) ==
    LET abs_path == resolve(file_path)
    IN  IF abs_path \in processing_stack
        THEN /\ pc' = "raise"
             /\ error' = abs_path
             /\ UNCHANGED <<processing_stack, disk, frames>>
        ELSE /\ processing_stack' = processing_stack \cup {abs_path}
             /\ \E content \in ReadChoices(abs_path) :
                  /\ disk' = (abs_path :> content) @@ disk
                  /\ frames' = Append(frames,
                        [file_path |-> file_path, abs_path |-> abs_path,
                         lines |-> content, i |-> 1,
                         processed_lines |-> << >>])
             /\ pc' = "run"
             /\ UNCHANGED error

---------------------------------------------------------------------------
\* The decision table of the loop body.

include_name == group1(Line)

\* The directory of the file being processed.
current_dir == Front(Top.abs_path)

include_path == find_include_file(include_name, current_dir)

\* The line reaches the resolver: it matched and is not kept as a system
\* include.
Local == InLoop /\ include_match(Line) /\ ~IsSystemInclude(Line)

SelectHeader(path) == inline_headers /\ get_file_type(path) = "HEADER"

\* Fault variant of SelectSource: the two special references are not
\* tested.
SelectSourceByKind(name, path) ==
    /\ inline_sources
    /\ get_file_type(path) = "SOURCE"

SelectSource(name, path) ==
    /\ inline_sources
    /\ \/ get_file_type(path) = "SOURCE"
       \/ name = <<"src", "/", "gtest-internal-inl.h">>
       \/ name = <<"gtest", "/", "gtest-spi.h">>

\* Fault variant of SkippedName: gtest/gtest.h is not excepted.
SkippedNameAnyGtest(name) ==
    Len(name) >= 2 /\ name[1] = "gtest" /\ name[2] = "/"

\* include_name.startswith("gtest/") and include_name != "gtest/gtest.h"
SkippedName(name) ==
    /\ Len(name) >= 2 /\ name[1] = "gtest" /\ name[2] = "/"
    /\ name # <<"gtest", "/", "gtest.h">>

Marker(path) == <<"// Inlined from: ">> \o str(path)

\* '\n'.join(processed_lines), as the lines of the text it gives: the
\* empty list gives the empty text, which is one empty line.
join(lines) == IF lines = << >> THEN << << >> >> ELSE lines

Say(msg, what) == stderr' = [msg |-> msg, what |-> what]

\* fuse_file, up to its call of process_file.
FuseFile ==
    /\ pc = "start"
    /\ Enter(input_file)
    /\ UNCHANGED <<config, already_inlined, processed, output, resolver,
                   stderr>>

\* Fault variant of PassThrough: the line is dropped.
PassThroughDropsLine ==
    /\ InLoop
    /\ ~include_match(Line)
    /\ Emit(<< >>)
    /\ UNCHANGED <<config, processing_stack, already_inlined, disk, pc,
                   processed, error, output, resolver, stderr>>

\* A line that is no inclusion directive.
PassThrough ==
    /\ InLoop
    /\ ~include_match(Line)
    /\ Emit(<<Line>>)
    /\ UNCHANGED <<config, processing_stack, already_inlined, disk, pc,
                   processed, error, output, resolver, stderr>>

\* "Keep system includes".
SystemInclude ==
    /\ InLoop
    /\ include_match(Line)
    /\ IsSystemInclude(Line)
    /\ Emit(<<Line>>)
    /\ Say("preserve system include", include_name)
    /\ UNCHANGED <<config, processing_stack, already_inlined, disk, pc,
                   processed, error, output, resolver>>

\* Fault variant of AlreadyInlined: the directive is kept instead of
\* dropped.
AlreadyInlinedKeepsLine ==
    /\ Local
    /\ include_path \in already_inlined
    /\ resolver' = FindCall(include_name, current_dir)
    /\ Emit(<<Line>>)
    /\ Say("already inlined", include_path)
    /\ UNCHANGED <<config, processing_stack, already_inlined, disk, pc,
                   processed, error, output>>

\* Fault variant of AlreadyInlined: a file that is being processed counts
\* as inlined too.
AlreadyInlinedOrActive ==
    /\ Local
    /\ \/ include_path \in already_inlined
       \/ /\ include_path # None
          /\ resolve(include_path) \in processing_stack
    /\ resolver' = FindCall(include_name, current_dir)
    /\ Emit(<< >>)
    /\ Say("already inlined", include_path)
    /\ UNCHANGED <<config, processing_stack, already_inlined, disk, pc,
                   processed, error, output>>

\* The resolved path is one that was inlined before: the directive is
\* dropped.
AlreadyInlined ==
    /\ Local
    /\ include_path \in already_inlined
    /\ resolver' = FindCall(include_name, current_dir)
    /\ Emit(<< >>)
    /\ Say("already inlined", include_path)
    /\ UNCHANGED <<config, processing_stack, already_inlined, disk, pc,
                   processed, error, output>>

\* Fault variant of NotFound: the directive that cannot be resolved is
\* dropped.
NotFoundDropsLine ==
    /\ Local
    /\ include_path \notin already_inlined
    /\ include_path = None
    /\ resolver' = FindCall(include_name, current_dir)
    /\ Emit(<< >>)
    /\ Say("could not find", Line)
    /\ UNCHANGED <<config, processing_stack, already_inlined, disk, pc,
                   processed, error, output>>

\* "Include not found, keep original line".
NotFound ==
    /\ Local
    /\ include_path \notin already_inlined
    /\ include_path = None
    /\ resolver' = FindCall(include_name, current_dir)
    /\ Emit(<<Line>>)
    /\ Say("could not find", Line)
    /\ UNCHANGED <<config, processing_stack, already_inlined, disk, pc,
                   processed, error, output>>

\* Fault variant of InlineHeader: the path is recorded as inlined before
\* the recursive call, not after it.
InlineHeaderRecordsEarly ==
    /\ Local
    /\ include_path \notin already_inlined
    /\ include_path # None
    /\ SelectHeader(include_path)
    /\ resolver' = FindCall(include_name, current_dir)
    /\ Enter(include_path)
    /\ already_inlined' = already_inlined \cup {include_path}
    /\ UNCHANGED <<config, processed, output, stderr>>

\* The two inlining branches, up to the entry of the recursive call.
InlineHeader ==
    /\ Local
    /\ include_path \notin already_inlined
    /\ include_path # None
    /\ SelectHeader(include_path)
    /\ resolver' = FindCall(include_name, current_dir)
    /\ Enter(include_path)
    /\ UNCHANGED <<config, already_inlined, processed, output, stderr>>

InlineSource ==
    /\ Local
    /\ include_path \notin already_inlined
    /\ include_path # None
    /\ ~SelectHeader(include_path)
    /\ SelectSource(include_name, include_path)
    /\ resolver' = FindCall(include_name, current_dir)
    /\ Enter(include_path)
    /\ UNCHANGED <<config, already_inlined, processed, output, stderr>>

Skip ==
    /\ Local
    /\ include_path \notin already_inlined
    /\ include_path # None
    /\ ~SelectHeader(include_path)
    /\ ~SelectSource(include_name, include_path)
    /\ SkippedName(include_name)
    /\ resolver' = FindCall(include_name, current_dir)
    /\ Emit(<< <<"//">> \o Line >>)
    /\ Say("skipping", include_name)
    /\ UNCHANGED <<config, processing_stack, already_inlined, disk, pc,
                   processed, error, output>>

NotInlining ==
    /\ Local
    /\ include_path \notin already_inlined
    /\ include_path # None
    /\ ~SelectHeader(include_path)
    /\ ~SelectSource(include_name, include_path)
    /\ ~SkippedName(include_name)
    /\ resolver' = FindCall(include_name, current_dir)
    /\ Emit(<<Line>>)
    /\ Say("not inlining", include_name)
    /\ UNCHANGED <<config, processing_stack, already_inlined, disk, pc,
                   processed, error, output>>

\* Fault variant of Return: the inlined path is not recorded.
ReturnForgetsInlined ==
    /\ pc = "run"
    /\ Len(frames) > 1
    /\ Top.i > Len(Top.lines)
    /\ processing_stack' = processing_stack \ {Top.abs_path}
    /\ LET caller == frames[Len(frames) - 1]
           name == group1(caller.lines[caller.i])
       IN  /\ frames' = [Front(frames) EXCEPT ![Len(frames) - 1] =
                 [@ EXCEPT !.processed_lines =
                        @ \o <<Marker(Top.file_path)>>
                          \o join(Top.processed_lines),
                    !.i = @ + 1]]
           /\ Say(IF SelectHeader(Top.file_path) THEN "inline header"
                  ELSE "inline source", name)
    /\ UNCHANGED <<config, already_inlined, disk, pc, processed, error,
                   output, resolver>>

\* Fault variant of Return: the marker is written after the content.
ReturnMarkerLast ==
    /\ pc = "run"
    /\ Len(frames) > 1
    /\ Top.i > Len(Top.lines)
    /\ processing_stack' = processing_stack \ {Top.abs_path}
    /\ LET caller == frames[Len(frames) - 1]
           name == group1(caller.lines[caller.i])
       IN  /\ frames' = [Front(frames) EXCEPT ![Len(frames) - 1] =
                 [@ EXCEPT !.processed_lines =
                        @ \o join(Top.processed_lines)
                          \o <<Marker(Top.file_path)>>,
                    !.i = @ + 1]]
           /\ Say(IF SelectHeader(Top.file_path) THEN "inline header"
                  ELSE "inline source", name)
    /\ already_inlined' = already_inlined \cup {Top.file_path}
    /\ UNCHANGED <<config, disk, pc, processed, error, output, resolver>>

\* Fault variant of Return: the path stays on processing_stack when the
\* call returns.
ReturnKeepsStack ==
    /\ pc = "run"
    /\ Len(frames) > 1
    /\ Top.i > Len(Top.lines)
    /\ LET caller == frames[Len(frames) - 1]
           name == group1(caller.lines[caller.i])
       IN  /\ frames' = [Front(frames) EXCEPT ![Len(frames) - 1] =
                 [@ EXCEPT !.processed_lines =
                        @ \o <<Marker(Top.file_path)>>
                          \o join(Top.processed_lines),
                    !.i = @ + 1]]
           /\ Say(IF SelectHeader(Top.file_path) THEN "inline header"
                  ELSE "inline source", name)
    /\ already_inlined' = already_inlined \cup {Top.file_path}
    /\ UNCHANGED <<config, processing_stack, disk, pc, processed, error,
                   output, resolver>>

\* The end of a recursive call: the callee's finally and return, then the
\* rest of the caller's inlining branch.
Return ==
    /\ pc = "run"
    /\ Len(frames) > 1
    /\ Top.i > Len(Top.lines)
    /\ processing_stack' = processing_stack \ {Top.abs_path}
    /\ LET caller == frames[Len(frames) - 1]
           name == group1(caller.lines[caller.i])
       IN  /\ frames' = [Front(frames) EXCEPT ![Len(frames) - 1] =
                 [@ EXCEPT !.processed_lines =
                        @ \o <<Marker(Top.file_path)>>
                          \o join(Top.processed_lines),
                    !.i = @ + 1]]
           /\ Say(IF SelectHeader(Top.file_path) THEN "inline header"
                  ELSE "inline source", name)
    /\ already_inlined' = already_inlined \cup {Top.file_path}
    /\ UNCHANGED <<config, disk, pc, processed, error, output, resolver>>

\* Fault variant of ReturnTop: the finally clause is missing.
ReturnTopKeepsStack ==
    /\ pc = "run"
    /\ Len(frames) = 1
    /\ Top.i > Len(Top.lines)
    /\ processed' = [path |-> Top.abs_path,
                     content |-> join(Top.processed_lines),
                     type |-> get_file_type(Top.abs_path)]
    /\ frames' = << >>
    /\ pc' = "fuse"
    /\ UNCHANGED <<config, processing_stack, already_inlined, disk, error,
                   output, resolver, stderr>>

\* The end of the outermost call: back in fuse_file.
ReturnTop ==
    /\ pc = "run"
    /\ Len(frames) = 1
    /\ Top.i > Len(Top.lines)
    /\ processing_stack' = processing_stack \ {Top.abs_path}
    /\ processed' = [path |-> Top.abs_path,
                     content |-> join(Top.processed_lines),
                     type |-> get_file_type(Top.abs_path)]
    /\ frames' = << >>
    /\ pc' = "fuse"
    /\ UNCHANGED <<config, already_inlined, disk, error, output, resolver,
                   stderr>>

GuardName == <<"FUSED_", upper(stem(Last(input_file))), "_H">>

\* Fault variant of WriteOutput: the guard is added when headers are
\* inlined, not when the input is a header.
WriteOutputGuardsBySwitch ==
    /\ pc = "fuse"
    /\ output' = IF inline_headers
                 THEN << <<"#ifndef ">> \o GuardName,
                         <<"#define ">> \o GuardName,
                         << >> >>
                      \o processed.content
                      \o << << >>, <<"#endif  // ">> \o GuardName >>
                 ELSE processed.content
    /\ pc' = "done"
    /\ UNCHANGED <<config, processing_stack, already_inlined, disk, frames,
                   processed, error, resolver, stderr>>

\* The rest of fuse_file: the header guard and the write.
WriteOutput ==
    /\ pc = "fuse"
    /\ output' = IF processed.type = "HEADER"
                 THEN << <<"#ifndef ">> \o GuardName,
                         <<"#define ">> \o GuardName,
                         << >> >>
                      \o processed.content
                      \o << << >>, <<"#endif  // ">> \o GuardName >>
                 ELSE processed.content
    /\ pc' = "done"
    /\ UNCHANGED <<config, processing_stack, already_inlined, disk, frames,
                   processed, error, resolver, stderr>>

\* Fault variant of Unwind: the caller catches the exception, keeps the
\* directive and goes on.
UnwindCatches ==
    /\ pc = "raise"
    /\ frames # << >>
    /\ Emit(<<Line>>)
    /\ pc' = "run"
    /\ UNCHANGED <<config, processing_stack, already_inlined, disk,
                   processed, error, output, resolver, stderr>>

\* Fault variant of Unwind: the path is removed on the normal return only,
\* not in a finally clause.
UnwindKeepsStack ==
    /\ pc = "raise"
    /\ frames # << >>
    /\ frames' = Front(frames)
    /\ UNCHANGED <<config, processing_stack, already_inlined, disk, pc,
                   processed, error, output, resolver, stderr>>

\* The exception leaves one process_file call: its finally runs.
Unwind ==
    /\ pc = "raise"
    /\ frames # << >>
    /\ processing_stack' = processing_stack \ {Top.abs_path}
    /\ frames' = Front(frames)
    /\ UNCHANGED <<config, already_inlined, disk, pc, processed, error,
                   output, resolver, stderr>>

\* The exception leaves fuse_file: nothing is written.
Abort ==
    /\ pc = "raise"
    /\ frames = << >>
    /\ pc' = "failed"
    /\ UNCHANGED <<config, processing_stack, already_inlined, disk, frames,
                   processed, error, output, resolver, stderr>>

Next ==
    \/ FuseFile
    \/ PassThrough
    \/ SystemInclude
    \/ AlreadyInlined
    \/ NotFound
    \/ InlineHeader
    \/ InlineSource
    \/ Skip
    \/ NotInlining
    \/ Return
    \/ ReturnTop
    \/ WriteOutput
    \/ Unwind
    \/ Abort

Spec == Init /\ [][Next]_vars

---------------------------------------------------------------------------
\* A run on a top-level file that is given: its text is made of the lines
\* of TopPool, which has the shapes of directive the pattern of line 74
\* and the test of line 79 tell apart, and the references lines 101 and
\* 107 name.  The files it includes are read as in Spec.

MaxTopLines == 2

Indented(line) == <<" ">> \o line

Commented(line) == line \o <<" ", "/", "/", " ", "<", "again", ">">>

OtherLine == <<"int y;">>

TopPool == { PlainLine,
             OtherLine,
             Quoted(<<"b.h">>),
             Indented(Quoted(<<"b.h">>)),
             Commented(Quoted(<<"b.h">>)),
             Quoted(<<"gtest", "/", "gtest-spi.h">>),
             Quoted(<<"gtest", "/", "gtest.h">>),
             Quoted(<<"src", "/", "gtest-internal-inl.h">>) }

TopTexts == UNION { [1..k -> TopPool] : k \in 1..MaxTopLines }

InitTop ==
    /\ include_paths \in IncludePathChoices
    /\ \E run \in Runs :
         /\ input_file = run[1]
         /\ inline_headers = run[2]
         /\ inline_sources = run[3]
    /\ processing_stack = {}
    /\ already_inlined = {}
    /\ \E text \in TopTexts : disk = (resolve(input_file) :> text)
    /\ frames = << >>
    /\ pc = "start"
    /\ processed = None
    /\ error = None
    /\ output = None
    /\ resolver = NoCall
    /\ stderr = [msg |-> "", what |-> None]

SpecTop == InitTop /\ [][Next]_vars

---------------------------------------------------------------------------
\* The inclusion graph of the files read so far.

TopFile == resolve(input_file)

\* The files the directives of f lead to: every directive that resolves
\* (selected = FALSE), or only those the engine recurses into under the
\* active switches (selected = TRUE).
Targets(f, selected) ==
    IF f \notin DOMAIN disk THEN {}
    ELSE { resolve(find_include_file(group1(disk[f][k]), Front(f))) :
             k \in { n \in 1..Len(disk[f]) :
                       LET l == disk[f][n]
                           p == find_include_file(group1(l), Front(f))
                       IN  /\ include_match(l)
                           /\ p # None
                           /\ selected =>
                                /\ ~IsSystemInclude(l)
                                /\ \/ SelectHeader(p)
                                   \/ SelectSource(group1(l), p) } }

RECURSIVE Closure(_, _)
Closure(S, selected) ==
    LET more == S \cup UNION { Targets(f, selected) : f \in S }
    IN  IF more = S THEN S ELSE Closure(more, selected)

\* The files that f includes, directly or through a chain.
Includes(f, selected) == Closure(Targets(f, selected), selected)

OnCycle(f, selected) == f \in Includes(f, selected)

---------------------------------------------------------------------------
\* C1 as stated: whenever the top-level file includes itself, directly or
\* through a chain of inclusion directives, whatever the switches, the
\* run fails, and the path the error names is on a cycle through the
\* top-level file.
C1_AnyCycleFails ==
    /\ pc = "done" => ~OnCycle(TopFile, FALSE)
    /\ pc = "failed" /\ OnCycle(TopFile, FALSE) =>
          /\ error \in Includes(TopFile, FALSE)
          /\ TopFile \in Includes(error, FALSE)

\* C1 as amended: when the top-level file is on a cycle of directives the
\* engine recurses into (quote-delimited, resolved, selected for inlining
\* under the active switches), the run does not complete: it fails with
\* the circular-dependency error; and the path an error names is a file
\* on such a cycle that the top-level file reaches.
C1_SelectedCycleFails ==
    /\ pc = "done" => ~OnCycle(TopFile, TRUE)
    /\ pc \in {"raise", "failed"} =>
          /\ OnCycle(error, TRUE)
          /\ error \in {TopFile} \cup Includes(TopFile, TRUE)

\* A run that failed on a cycle through the top-level file and another
\* file.
C1_Witness ==
    /\ pc = "failed"
    /\ OnCycle(TopFile, TRUE)
    /\ error = TopFile
    /\ Cardinality(DOMAIN disk) >= 2

\* A measure of what a run has left to do.  Its leading digit is the
\* phase of fuse_file; while process_file runs, the following digits
\* are, from the outermost call inwards, the lines each active call has
\* left, and MaxLines + 1 for a call depth not reached; while an
\* exception unwinds, the number of calls it has yet to leave.
RECURSIVE Pow(_, _)
Pow(b, n) == IF n = 0 THEN 1 ELSE b * Pow(b, n - 1)

MaxDepth == Cardinality(Files)

RECURSIVE Digits(_)
Digits(k) ==
    IF k > MaxDepth THEN 0
    ELSE Pow(MaxLines + 2, MaxDepth - k)
           * (IF k <= Len(frames)
              THEN Len(frames[k].lines) + 1 - frames[k].i
              ELSE MaxLines + 1)
         + Digits(k + 1)

Phase ==
    CASE pc = "start" -> 3
      [] pc = "run" -> 2
      [] pc \in {"raise", "fuse"} -> 1
      [] OTHER -> 0

Rank ==
    Phase * Pow(MaxLines + 2, MaxDepth)
    + (IF pc = "run" THEN Digits(1) ELSE Len(frames))

\* C2: a call of process_file on a fresh engine comes to an end: every
\* step of a run lowers Rank, a natural number, so no run goes on for
\* ever.  When process_file returns to fuse_file, processing_stack is
\* empty and no call is active; the only other way it ends is the error
\* raised for a file that is on a cycle of inlined inclusions, so on an
\* acyclic graph it returns.
C2_Terminates ==
    /\ [][Rank' < Rank]_vars
    /\ [](pc = "fuse" => processing_stack = {} /\ frames = << >>)
    /\ [](pc = "raise" => OnCycle(error, TRUE))

\* process_file has returned from a run that went through three files.
C2_Witness ==
    /\ pc = "fuse"
    /\ processing_stack = {}
    /\ Cardinality(DOMAIN disk) >= 3
    /\ ~\E f \in DOMAIN disk : OnCycle(f, FALSE)

---------------------------------------------------------------------------
\* What a step of the loop did, read off the two states.

Opening(line) == line[MatchOpen(line)]

QuoteDirective(line) == include_match(line) /\ Opening(line) = "\""

AngleDirective(line) == include_match(line) /\ Opening(line) = "<"

\* The current call went on to its next line, having appended `emitted`;
\* nothing was called.
Appended(emitted) ==
    /\ Len(frames') = Len(frames)
    /\ \A k \in 1..(Len(frames) - 1) : frames'[k] = frames[k]
    /\ frames'[Len(frames)].i = Top.i + 1
    /\ frames'[Len(frames)].processed_lines = Top.processed_lines \o emitted
    /\ pc' = "run"
    /\ processing_stack' = processing_stack
    /\ disk' = disk
    /\ error' = error

\* The step called find_include_file.
Resolved == resolver'.calls = resolver.calls + 1

RECURSIVE Count(_, _)
Count(lines, l) ==
    IF lines = <<>> THEN 0
    ELSE (IF Head(lines) = l THEN 1 ELSE 0) + Count(Tail(lines), l)

\* C3 as stated: a file, identified by its absolute path, is inlined at
\* most once in a run, however the references to it were resolved.  Every
\* inlining records its path in already_inlined, so no two recorded paths
\* are the same file.
C3_InlinedAtMostOnce ==
    \A p \in already_inlined : \A q \in already_inlined :
        resolve(p) = resolve(q) => p = q

\* C4: a quote-delimited directive that the engine resolves to a path in
\* already_inlined emits no line and starts no call, whatever the
\* switches.
C4_Elided ==
    [][ ( /\ InLoop
          /\ QuoteDirective(Line)
          /\ Resolved
          /\ resolver'.result \in already_inlined )
        => ( /\ Appended(<< >>)
             /\ already_inlined' = already_inlined ) ]_vars

\* The same directive three times in one file: inlined, elided, elided.
C4_Witness ==
    /\ pc = "run"
    /\ frames # << >>
    /\ Top.i = 4
    /\ Top.lines[1] = Top.lines[2]
    /\ Top.lines[2] = Top.lines[3]
    /\ stderr.msg = "already inlined"
    /\ Len(Top.processed_lines) = 2

\* C5: with inline_headers on, a quote-delimited directive that the
\* engine resolves to a header not inlined before starts a call on the
\* resolved path (or raises for a cycle); when that call returns, the
\* caller's output grows by one marker line naming the resolved path
\* followed by the whole processed content of the file, and the path is
\* in already_inlined; in the output of a completed run each header so
\* inlined has exactly one marker line.
C5_HeaderInlined ==
    /\ [][ ( /\ InLoop
             /\ inline_headers
             /\ QuoteDirective(Line)
             /\ Resolved
             /\ resolver'.result # None
             /\ resolver'.result \notin already_inlined
             /\ get_file_type(resolver'.result) = "HEADER" )
           => ( \/ pc' = "raise" /\ frames' = frames
               \/ /\ pc' = "run"
                  /\ Front(frames') = frames
                  /\ Last(frames').file_path = resolver'.result
                  /\ Last(frames').i = 1
                  /\ Last(frames').processed_lines = << >> ) ]_vars
    /\ [][ ( /\ pc = "run"
             /\ Len(frames) > 1
             /\ Len(frames') = Len(frames) - 1
             /\ inline_headers )
           => LET caller == frames[Len(frames) - 1]
                  line == caller.lines[caller.i]
                  path == find_include_file(group1(line),
                                            Front(caller.abs_path))
              IN  ( QuoteDirective(line) /\ get_file_type(path) = "HEADER" )
                  => ( /\ Top.i = Len(Top.lines) + 1
                       /\ frames'[Len(frames) - 1].processed_lines =
                             caller.processed_lines
                             \o << <<"// Inlined from: ">> \o str(path) >>
                             \o ( IF Top.processed_lines = << >>
                                  THEN << << >> >>
                                  ELSE Top.processed_lines )
                       /\ frames'[Len(frames) - 1].i = caller.i + 1
                       /\ path \in already_inlined' ) ]_vars
    /\ [](pc = "done" /\ inline_headers =>
            \A path \in already_inlined :
                get_file_type(path) = "HEADER" =>
                    Count(output, <<"// Inlined from: ">> \o str(path)) = 1)

\* A completed run that inlined the header found on the search path.
C5_Witness ==
    /\ pc = "done"
    /\ inline_headers
    /\ <<"/", "inc", "d.H">> \in already_inlined
    /\ Count(output, <<"// Inlined from: ", "/", "inc", "/", "d.H">>) = 1

\* C6: on an angle-bracket-delimited directive the engine does not call
\* the resolver, starts no call, leaves already_inlined alone and emits
\* the line as it is.
C6_SystemPreserved ==
    [][ ( InLoop /\ AngleDirective(Line) )
        => ( /\ resolver' = resolver
             /\ Appended(<<Line>>)
             /\ already_inlined' = already_inlined ) ]_vars

\* <b.h> was kept while headers are inlined and b.h is there to be found.
C6_Witness ==
    /\ pc = "run"
    /\ frames # << >>
    /\ inline_headers
    /\ exists(<<"/", "p", "b.h">>)
    /\ Top.i = 2
    /\ Top.lines[1] = <<"#include", " ", "<", "b.h", ">">>
    /\ Top.processed_lines = << <<"#include", " ", "<", "b.h", ">">> >>

\* The reference is neither in the directory nor on the search path.
Unresolvable(name, dir) ==
    /\ ~exists(dir \o PathOf(name))
    /\ \A k \in 1..Len(include_paths) :
          ~exists(include_paths[k] \o PathOf(name))

\* C7: a quote-delimited directive whose reference exists neither in the
\* including file's directory nor on the search path is emitted as it is;
\* no error is raised and the loop goes on to the next line.
C7_UnresolvedKept ==
    [][ ( /\ InLoop
          /\ QuoteDirective(Line)
          /\ Unresolvable(group1(Line), Front(Top.abs_path)) )
        => ( /\ Appended(<<Line>>)
             /\ already_inlined' = already_inlined ) ]_vars

\* "nope.h" was kept and the line after it processed.
C7_Witness ==
    /\ pc = "run"
    /\ frames # << >>
    /\ Top.i = 3
    /\ Top.lines[1] = <<"#include", " ", "\"", "nope.h", "\"">>
    /\ Len(Top.processed_lines) >= 2
    /\ Top.processed_lines[1] = Top.lines[1]

\* C8: once the circular-dependency error is raised, no call resumes: the
\* exception only leaves calls, one after the other, until it has left
\* fuse_file, and nothing is written.
C8_ErrorAborts ==
    /\ [][ ( pc = "raise" \/ pc = "failed" )
           => ( /\ pc' \in {"raise", "failed"}
                /\ frames' = frames \/ frames' = Front(frames)
                /\ error' = error
                /\ output' = None ) ]_vars
    /\ [](pc \in {"raise", "failed"} => output = None /\ processed = None)

\* The error was raised three calls deep.
C8_Witness ==
    /\ pc = "raise"
    /\ Len(frames) = 3
    /\ output = None

\* C10: the text written is the processed content between the lines
\* "#ifndef G", "#define G", "" and "", "#endif  // G", with G the
\* upper-cased stem of the input between FUSED_ and _H, when the input
\* file is a header, and the processed content alone when it is not.
C10_Guard ==
    pc = "done" =>
        /\ input_file = <<"a.h">> =>
              output = << <<"#ifndef ", "FUSED_", "A", "_H">>,
                          <<"#define ", "FUSED_", "A", "_H">>,
                          << >> >>
                       \o processed.content
                       \o << << >>, <<"#endif  // ", "FUSED_", "A", "_H">> >>
        /\ input_file \in { <<"c.cpp">>, <<"n.txt">> } =>
              output = processed.content

\* A header was fused with both switches off, and its guard written.
C10_Witness ==
    /\ pc = "done"
    /\ input_file = <<"a.h">>
    /\ ~inline_headers
    /\ Len(output) = Len(processed.content) + 5
    /\ output[1] = <<"#ifndef ", "FUSED_", "A", "_H">>

---------------------------------------------------------------------------
\* find_include_file on its own: one call on an engine with any search
\* path of up to MaxPaths directories.

MaxPaths == 2

SearchDirs == { <<"/", "p">>, <<"/", "inc">>, << >>, <<"/", "inc", "gtest">> }

CallDirs == { <<"/", "p">>, <<"/", "inc">>, <<"/">> }

Names == { <<"b.h">>, <<"d.H">>, <<"nope.h">>, <<"gtest-spi.h">>,
           <<"gtest", "/", "gtest-spi.h">>, <<"..", "/", "p", "/", "b.h">>,
           <<"p", "/", "b.h">> }

InitFind ==
    /\ include_paths \in UNION { [1..n -> SearchDirs] : n \in 0..MaxPaths }
    /\ inline_headers = FALSE
    /\ inline_sources = FALSE
    /\ processing_stack = {}
    /\ already_inlined = {}
    /\ disk = << >>
    /\ input_file = <<"a.h">>
    /\ frames = << >>
    /\ pc = "start"
    /\ processed = None
    /\ error = None
    /\ output = None
    /\ resolver = NoCall
    /\ stderr = [msg |-> "", what |-> None]

Find ==
    /\ resolver.calls = 0
    /\ \E name \in Names : \E dir \in CallDirs :
          resolver' = FindCall(name, dir)
    /\ UNCHANGED <<config, processing_stack, already_inlined, disk, frames,
                   pc, processed, error, output, stderr>>

SpecFind == InitFind /\ [][Find]_vars

\* The places find_include_file looks in, in order.
Candidates(name, dir) ==
    <<dir \o PathOf(name)>>
    \o [k \in 1..Len(include_paths) |-> include_paths[k] \o PathOf(name)]

\* C9: find_include_file returns the candidate in the including file's
\* directory when it exists, otherwise the candidate of the first search
\* directory, in list order, where the reference exists, otherwise None:
\* the result is the first candidate that exists.
C9_FirstMatch ==
    resolver.calls > 0 =>
        LET cands == Candidates(resolver.include_name, resolver.current_dir)
            hits == { k \in 1..Len(cands) : exists(cands[k]) }
        IN  IF hits = {} THEN resolver.result = None
            ELSE \E k \in hits :
                    /\ \A j \in hits : k <= j
                    /\ resolver.result = cands[k]

\* b.h was asked for from /inc, is in both search directories, and the
\* one listed first was returned.
C9_Witness ==
    /\ resolver.calls > 0
    /\ resolver.include_name = <<"b.h">>
    /\ resolver.current_dir = <<"/", "inc">>
    /\ include_paths = << << >>, <<"/", "p">> >>
    /\ resolver.result = <<"b.h">>

---------------------------------------------------------------------------
\* The shape of a directive as the specification words it: the pattern of
\* line 74 after optional leading whitespace.

Strip(line) == SubSeq(line, SkipSpace(line, 1), Len(line))

\* C11 as stated: a line that is a quote-delimited directive once its
\* leading whitespace is taken off is recognized as that directive: the
\* step on it hands the reference to the resolver, as the step on the
\* same line without indentation does, and does not merely copy the line.
C11_IndentedRecognized ==
    [][ ( /\ InLoop
          /\ Line # Strip(Line)
          /\ QuoteDirective(Strip(Line))
          /\ ~IsSystemInclude(Line) )
        => ( /\ Resolved
             /\ resolver'.include_name = group1(Strip(Line)) ) ]_vars

\* The paths of the active process_file calls.
ActivePaths == { frames[k].abs_path : k \in 1..Len(frames) }

\* C12: in every state of a run, the states in which an exception is
\* leaving the calls included, processing_stack is the set of the paths
\* of the active process_file calls, each active once; a call that
\* starts adds its path, a call that ends, by return or by exception,
\* takes its path off, and a call that raises at its cycle check has
\* changed nothing: after a call the stack is what it was before it.
C12_StackIsCallChain ==
    /\ [](processing_stack = ActivePaths)
    /\ [](Cardinality(processing_stack) = Len(frames))
    /\ [][ Len(frames') = Len(frames) + 1
           => ( /\ Front(frames') = frames
                /\ Last(frames').abs_path \notin processing_stack
                /\ processing_stack' =
                      processing_stack \cup {Last(frames').abs_path} ) ]_vars
    /\ [][ Len(frames') = Len(frames) - 1
           => ( /\ \A k \in 1..Len(frames') :
                      frames'[k].abs_path = frames[k].abs_path
                /\ processing_stack' = processing_stack \ {Top.abs_path} ) ]_vars
    /\ [][ ( pc = "run" /\ pc' = "raise" )
           => ( frames' = frames /\ processing_stack' = processing_stack ) ]_vars

\* The error raised two calls deep has left the inner call: only the
\* top-level call is active and only its path is on the stack.
C12_Witness ==
    /\ pc = "raise"
    /\ Len(frames) = 1
    /\ error # TopFile
    /\ processing_stack = {TopFile}

\* C13: a quote-delimited directive that the engine resolves to a file
\* not in already_inlined starts a process_file call on the resolved path
\* exactly when inline_headers is on and the file is a header, or
\* inline_sources is on and the file is a source or the reference is
\* src/gtest-internal-inl.h or gtest/gtest-spi.h; a call that returns to
\* its caller is inlined there, marker, content and already_inlined; with
\* both switches off no call but the top-level one is ever made.
C13_SelectionRule ==
    /\ [][ ( /\ InLoop
             /\ QuoteDirective(Line)
             /\ Resolved
             /\ resolver'.result # None
             /\ resolver'.result \notin already_inlined )
           => LET name == resolver'.include_name
                  path == resolver'.result
                  kind == get_file_type(path)
                  selected ==
                      \/ inline_headers /\ kind = "HEADER"
                      \/ /\ inline_sources
                         /\ \/ kind = "SOURCE"
                            \/ name = <<"src", "/", "gtest-internal-inl.h">>
                            \/ name = <<"gtest", "/", "gtest-spi.h">>
                  called ==
                      \/ pc' = "raise" /\ error' = resolve(path)
                      \/ /\ Len(frames') = Len(frames) + 1
                         /\ Last(frames').file_path = path
              IN  selected <=> called ]_vars
    /\ [][ ( pc = "run" /\ Len(frames') = Len(frames) - 1 /\ pc' = "run" )
           => ( /\ frames'[Len(frames')].processed_lines =
                      frames[Len(frames')].processed_lines
                      \o << <<"// Inlined from: ">> \o str(Top.file_path) >>
                      \o ( IF Top.processed_lines = << >> THEN << << >> >>
                           ELSE Top.processed_lines )
                /\ Top.file_path \in already_inlined' ) ]_vars
    /\ []( ( ~inline_headers /\ ~inline_sources )
           => ( /\ Len(frames) <= 1
                /\ already_inlined = {}
                /\ DOMAIN disk \subseteq {TopFile}
                /\ pc # "raise" ) )

\* With inline_sources alone, the header src/gtest-internal-inl.h is being
\* inlined from the top-level file.
C13_Witness ==
    /\ pc = "run"
    /\ ~inline_headers
    /\ inline_sources
    /\ Len(frames) = 2
    /\ Top.file_path = <<"/", "inc", "src", "gtest-internal-inl.h">>
    /\ resolver.include_name = <<"src", "/", "gtest-internal-inl.h">>

\* The rule that selects a resolved reference for inlining, as C13 words
\* it.
Selected(name, path) ==
    \/ inline_headers /\ get_file_type(path) = "HEADER"
    \/ /\ inline_sources
       /\ \/ get_file_type(path) = "SOURCE"
          \/ name = <<"src", "/", "gtest-internal-inl.h">>
          \/ name = <<"gtest", "/", "gtest-spi.h">>

\* C14: a quote-delimited directive that the engine resolves to a file
\* that is not in already_inlined and is not selected for inlining emits
\* exactly one line and starts no call: the line with "//" before it
\* when the reference starts with gtest/ and is not gtest/gtest.h, the
\* line as it is otherwise; already_inlined stays as it is.
C14_CommentedOrKept ==
    [][ ( /\ InLoop
          /\ QuoteDirective(Line)
          /\ Resolved
          /\ resolver'.result # None
          /\ resolver'.result \notin already_inlined
          /\ ~Selected(resolver'.include_name, resolver'.result) )
        => LET name == resolver'.include_name
           IN  /\ IF /\ Len(name) >= 2
                     /\ name[1] = "gtest"
                     /\ name[2] = "/"
                     /\ name # <<"gtest", "/", "gtest.h">>
                  THEN Appended(<< <<"//">> \o Line >>)
                  ELSE Appended(<<Line>>)
               /\ already_inlined' = already_inlined ]_vars

\* With both switches off, gtest/gtest-spi.h was commented out and
\* gtest/gtest.h kept.
C14_Witness ==
    /\ pc = "run"
    /\ Len(frames) = 1
    /\ Top.i = 3
    /\ Top.lines = << <<"#include", " ", "\"", "gtest", "/", "gtest-spi.h", "\"">>,
                      <<"#include", " ", "\"", "gtest", "/", "gtest.h", "\"">> >>
    /\ Top.processed_lines =
          << <<"//", "#include", " ", "\"", "gtest", "/", "gtest-spi.h", "\"">>,
             <<"#include", " ", "\"", "gtest", "/", "gtest.h", "\"">> >>

\* C15 as stated: the delimiter of the reference alone tells a system
\* include from a local one: every directive whose reference is
\* quote-delimited goes to the local rules, which begin by handing the
\* reference to the resolver, whatever else the line holds.
C15_DelimiterDecides ==
    [][ ( InLoop /\ QuoteDirective(Line) )
        => ( /\ Resolved
             /\ resolver'.include_name = group1(Line)
             /\ stderr'.msg # "preserve system include" ) ]_vars

\* s is the beginning of t.
Prefix(s, t) == Len(s) <= Len(t) /\ SubSeq(t, 1, Len(s)) = s

NoDirective(lines) == \A k \in 1..Len(lines) : ~include_match(lines[k])

\* C16: a line that is no inclusion directive is emitted as it is, and
\* nothing else happens; a call takes the lines of its file in order and
\* only ever adds to the end of what it has emitted, so the emitted
\* lines keep the order of the lines they come from; as long as a call
\* has met no directive what it has emitted is the text it has read, and
\* the content returned for a file without directives is its text.
C16_LinesPassThrough ==
    /\ [][ ( InLoop /\ ~include_match(Line) )
           => ( /\ Appended(<<Line>>)
                /\ already_inlined' = already_inlined
                /\ resolver' = resolver ) ]_vars
    /\ [][ \A k \in 1..Len(frames) :
             k <= Len(frames')
             => ( /\ frames'[k].lines = frames[k].lines
                  /\ frames'[k].i \in {frames[k].i, frames[k].i + 1}
                  /\ Prefix(frames[k].processed_lines,
                            frames'[k].processed_lines)
                  /\ frames'[k].i = frames[k].i
                       => frames'[k].processed_lines
                            = frames[k].processed_lines ) ]_vars
    /\ [](\A k \in 1..Len(frames) :
             LET read == SubSeq(frames[k].lines, 1, frames[k].i - 1)
             IN  NoDirective(read) => frames[k].processed_lines = read)
    /\ []( ( pc \in {"fuse", "done"} /\ NoDirective(disk[TopFile]) )
           => processed.content = disk[TopFile] )

\* A file of two different plain lines was returned as it is.
C16_Witness ==
    /\ pc = "fuse"
    /\ disk[TopFile] = << <<"int y;">>, <<"int x;">> >>
    /\ processed.content = << <<"int y;">>, <<"int x;">> >>

\* The files the top-level file reaches through directives the engine
\* inlines, itself included.
Reached == {TopFile} \cup Includes(TopFile, TRUE)

\* C17: a run whose top-level file reaches a cycle made of quote-delimited
\* directives that the engine resolves to files selected for inlining
\* never returns from process_file, let alone completes: it raises,
\* whatever the order of the directives and whatever already_inlined
\* holds by then; no file on such a cycle ever enters already_inlined,
\* and no directive is elided as already inlined while the file it
\* resolves to is being processed.
C17_DedupHidesNoCycle ==
    /\ []( pc \in {"fuse", "done"}
           => \A f \in Reached : ~OnCycle(f, TRUE) )
    /\ [][ \A p \in already_inlined' \ already_inlined :
             /\ resolve(p) \in DOMAIN disk
             /\ ~OnCycle(resolve(p), TRUE) ]_vars
    /\ [][ ( InLoop /\ Resolved /\ resolver'.result \in already_inlined )
           => resolve(resolver'.result) \notin processing_stack ]_vars

\* The top-level file inlined one file and then met a cycle that does
\* not go through itself: the run failed with already_inlined not empty.
C17_Witness ==
    /\ pc = "failed"
    /\ already_inlined # {}
    /\ ~OnCycle(TopFile, TRUE)
    /\ OnCycle(error, TRUE)

\* C18: the circular-dependency error is raised only when there is a
\* cycle: the file it names is being processed, each active call from
\* that file's down to the current one was started by a directive of the
\* call above it, and the current file has a directive that leads back to
\* the named file.  So an error is raised only when a file read is on a
\* cycle of inlined inclusions, and a file reached along two chains is no
\* error.
C18_NoFalseAlarm ==
    /\ [][ ( pc # "raise" /\ pc' = "raise" )
           => \E k \in 1..Len(frames) :
                 /\ frames[k].abs_path = error'
                 /\ \A j \in k..(Len(frames) - 1) :
                       frames[j + 1].abs_path
                          \in Targets(frames[j].abs_path, TRUE)
                 /\ error' \in Targets(Top.abs_path, TRUE) ]_vars
    /\ []( pc \in {"raise", "failed"}
           => \E f \in DOMAIN disk : OnCycle(f, TRUE) )

\* A diamond: a.h includes b.h and d.H, b.h includes d.H; the run
\* completed with d.H inlined once.
C18_Witness ==
    /\ pc = "done"
    /\ inline_headers
    /\ <<"/", "p", "b.h">> \in DOMAIN disk
    /\ disk[<<"/", "p", "a.h">>] =
          << <<"#include", " ", "\"", "b.h", "\"">>,
             <<"#include", " ", "\"", "d.H", "\"">> >>
    /\ disk[<<"/", "p", "b.h">>] = << <<"#include", " ", "\"", "d.H", "\"">> >>
    /\ Count(output, <<"// Inlined from: ", "/", "inc", "/", "d.H">>) = 1

\* The text emitted so far in the order it will have in the content of
\* the top-level file: what each active call has emitted, the inner call's
\* after the outer's and after the marker that will stand before it.
RECURSIVE Flat(_)
Flat(k) ==
    frames[k].processed_lines
    \o ( IF k < Len(frames)
         THEN << <<"// Inlined from: ">> \o str(frames[k + 1].file_path) >>
              \o Flat(k + 1)
         ELSE << >> )

SoFar == IF frames = << >> THEN << >> ELSE Flat(1)

\* C19: text once emitted keeps its place: what is emitted later comes
\* after it, up to the content returned and the output written.  When a
\* directive is elided as already inlined, the marker of the path it
\* resolves to, followed by content, is in the text emitted before the
\* place of the directive; so in the output of a completed run marker
\* and content stand before the place where the directive stood.
C19_InlinedBeforeElided ==
    /\ [][ ( pc = "run" /\ pc' = "run" ) => Prefix(SoFar, SoFar') ]_vars
    /\ [][ ( pc = "run" /\ pc' = "fuse" )
           => Prefix(SoFar, processed'.content) ]_vars
    /\ []( pc = "done"
           => \E off \in {0, 3} :
                 SubSeq(output, off + 1, off + Len(processed.content))
                    = processed.content )
    /\ [][ ( InLoop /\ Resolved /\ resolver'.result \in already_inlined )
           => ( /\ SoFar' = SoFar
                /\ \E k \in 1..Len(frames) :
                      \E j \in 1..(Len(frames[k].processed_lines) - 1) :
                          frames[k].processed_lines[j] =
                             <<"// Inlined from: ">>
                                \o str(resolver'.result) ) ]_vars

\* A completed run whose last directive, in the top-level file, was
\* elided: the file it names was inlined before, inside another file.
C19_Witness ==
    /\ pc = "done"
    /\ stderr.msg = "already inlined"
    /\ stderr.what = <<"/", "inc", "d.H">>
    /\ Cardinality(DOMAIN disk) = 3
    /\ Len(disk[TopFile]) = 2
    /\ disk[TopFile][2] = <<"#include", " ", "\"", "d.H", "\"">>
    /\ \E j \in 1..Len(output) :
          output[j] = <<"// Inlined from: ">> \o str(stderr.what)

\* C20: already_inlined never loses a path, and gains one only in the
\* step in which a recursive call, made for a quote-delimited directive
\* selected for inlining, has gone through all its lines and returns to
\* its caller: the path gained is the path of that call.  No step that
\* raises the error or lets it leave a call adds a path; the path of an
\* active call is not in it; the top-level file is never in it.
C20_OnlyGrowsAfterReturn ==
    /\ [][ already_inlined \subseteq already_inlined' ]_vars
    /\ [][ \A p \in already_inlined' \ already_inlined :
             /\ pc = "run"
             /\ pc' = "run"
             /\ Len(frames) > 1
             /\ frames' # << >>
             /\ Len(frames') = Len(frames) - 1
             /\ Top.file_path = p
             /\ Top.i = Len(Top.lines) + 1
             /\ LET caller == frames[Len(frames) - 1]
                    line == caller.lines[caller.i]
                IN  /\ QuoteDirective(line)
                    /\ Selected(group1(line), p)
                    /\ frames'[Len(frames')].i = caller.i + 1 ]_vars
    /\ [][ ( pc = "raise" \/ pc' = "raise" )
           => already_inlined' = already_inlined ]_vars
    /\ [](\A k \in 1..Len(frames) : frames[k].file_path \notin already_inlined)
    /\ [](\A p \in already_inlined : p # input_file /\ resolve(p) # TopFile)

\* One file was inlined, then the file after it raised: the error is
\* leaving the call on that file, whose path is not recorded.
C20_Witness ==
    /\ pc = "raise"
    /\ Len(frames) = 2
    /\ Cardinality(already_inlined) = 1
    /\ Top.file_path \notin already_inlined
    /\ Top.abs_path = error

===========================================================================
